---- MODULE Spec2Model ----
(***************************************************************************)
(* State-machine model of src/index.mjs: a solar-system viewer whose frame *)
(* callback (animate) republishes every catalogued planet at the simulated *)
(* clock, and whose loader (onWindowLoad) builds the scene once.           *)
(*                                                                         *)
(* Units.  The clock is a whole number of days since J2000.0 (the code     *)
(* holds Date objects; only their order and differences matter to the      *)
(* handlers).  Where the calendar conversion itself is exercised a Date is *)
(* a record [day, ms] and a Julian Date a record [J0x2, frac].             *)
(* Lengths are in Mm (10^3 km).  Angles are in centi-turns (1/100 of a     *)
(* revolution) and sines/cosines are fixed-point with scale 1000.  A       *)
(* vector is a record [x, y, z] of integers; a vector of NaN components is *)
(* the record NaNVec.                                                      *)
(***************************************************************************)
EXTENDS Integers, Sequences, FiniteSets, TLC

(***************************************************************************)
(* Bounds of the model.                                                    *)
(***************************************************************************)
\* how many entries of the planets list are tracked
NumPlanets == 2
\* the wall clock runs over 0..MaxWall
MaxWall == 3
\* the frames counted since the pause flag was last seen set (saturating)
MaxPausedFrames == 10

(***************************************************************************)
(* Program constants.                                                      *)
(***************************************************************************)
\* const spatialScale = 5e-1, kept as its reciprocal
spatialScaleInv == 2
\* const n = 1e2 in buildOrbitTrace
n == 100

\* the planets list (name and semiMajorAxis_km, here in Mm)
planets ==
    << [name |-> "Mercury", semiMajorAxis_km |-> 57910],
       [name |-> "Venus",   semiMajorAxis_km |-> 108210],
       [name |-> "Earth",   semiMajorAxis_km |-> 149898],
       [name |-> "Mars",    semiMajorAxis_km |-> 227939],
       [name |-> "Jupiter", semiMajorAxis_km |-> 778479],
       [name |-> "Saturn",  semiMajorAxis_km |-> 1433530],
       [name |-> "Uranus",  semiMajorAxis_km |-> 2870972],
       [name |-> "Neptune", semiMajorAxis_km |-> 4500000] >>

\* the planets the model tracks: the first NumPlanets of the list
Tracked == 1..NumPlanets

PlanetNames == { planets[k].name : k \in Tracked }

\* String.prototype.toLowerCase on the names the program handles
toLowerCase(name) ==
    CASE name = "Mercury" -> "mercury"
      [] name = "Venus"   -> "venus"
      [] name = "Earth"   -> "earth"
      [] name = "Mars"    -> "mars"
      [] name = "Jupiter" -> "jupiter"
      [] name = "Saturn"  -> "saturn"
      [] name = "Uranus"  -> "uranus"
      [] name = "Neptune" -> "neptune"
      [] name = "Sun"     -> "sun"
      [] OTHER            -> name

(***************************************************************************)
(* Fixed-point arithmetic.                                                 *)
(***************************************************************************)
Abs(v) == IF v < 0 THEN -v ELSE v

\* v / d rounded toward zero
DivT(v, d) == IF v >= 0 THEN v \div d ELSE -((-v) \div d)

\* a * b / d rounded toward zero, without forming a * b (a, b may be large)
MulDiv(a, b, d) ==
    LET s  == IF (a < 0) = (b < 0) THEN 1 ELSE -1
        aa == Abs(a)
        bb == Abs(b)
    IN  s * ((aa \div d) * bb + ((aa % d) * bb) \div d)

RECURSIVE IsqrtBetween(_, _, _)
IsqrtBetween(v, lo, hi) ==
    IF lo >= hi THEN lo
    ELSE LET mid == (lo + hi + 1) \div 2
         IN  IF mid * mid <= v THEN IsqrtBetween(v, mid, hi)
             ELSE IsqrtBetween(v, lo, mid - 1)

\* Math.sqrt on non-negative integers, rounded down
Isqrt(v) == IsqrtBetween(v, 0, IF v < 46340 THEN v ELSE 46340)

\* 1000 * cos of k centi-turns, k in 0..25 (first quadrant)
CosQuadrant ==
    << 1000, 998, 992, 982, 969, 951, 930, 905, 876, 844, 809, 771, 729,
       685, 637, 588, 536, 482, 426, 368, 309, 249, 187, 125, 63, 0 >>

\* Math.cos of an angle of k centi-turns, times 1000
cosMilli(k) ==
    LET r == k % 100
    IN  IF r <= 25 THEN CosQuadrant[r + 1]
        ELSE IF r <= 50 THEN -CosQuadrant[(50 - r) + 1]
        ELSE IF r <= 75 THEN -CosQuadrant[(r - 50) + 1]
        ELSE CosQuadrant[(100 - r) + 1]

\* Math.sin of an angle of k centi-turns, times 1000
sinMilli(k) == cosMilli(k + 75)

(***************************************************************************)
(* Vectors.                                                                *)
(***************************************************************************)
Vec(x, y, z) == [x |-> x, y |-> y, z |-> z]

NaNVec == [nan |-> TRUE]

IsFinite(v) == "nan" \notin DOMAIN v

\* spatialScale * v, componentwise (NaN stays NaN)
Scaled(v) ==
    IF IsFinite(v)
    THEN Vec(DivT(v.x, spatialScaleInv), DivT(v.y, spatialScaleInv),
             DivT(v.z, spatialScaleInv))
    ELSE NaNVec

(***************************************************************************)
(* The solarplanets library and the Date values it is given.  The library  *)
(* is an external package; it is modelled from the propagation algorithm   *)
(* of the specification (elements advanced linearly in Julian centuries,   *)
(* position on the orbit rotated by the inclination), for circular orbits  *)
(* (e = 0), in fixed point.  Only the position of [r, v] is modelled: the  *)
(* program never reads the velocity.                                       *)
(***************************************************************************)
\* the Date whose time value is NaN
InvalidDate == -1

(***************************************************************************)
(* Dates and Julian Dates.  A Date is its time value, held as the day it   *)
(* falls on (days since 1970-01-01, UTC) and the milliseconds into that    *)
(* day.  A Julian Date is a double between 2^21 and 2^22, a multiple of    *)
(* 2^-31 day: it is held as twice the Julian Date of 0h UT (J0x2, odd) and *)
(* the fraction of the day since 0h UT in units of 2^-31 day (frac).       *)
(***************************************************************************)
\* Date.UTC(y, m - 1, d): the day number of a calendar date
DayFromCivil(y, m, d) ==
    LET yy  == IF m <= 2 THEN y - 1 ELSE y
        era == yy \div 400
        yoe == yy - era * 400
        mp  == IF m > 2 THEN m - 3 ELSE m + 9
        doy == (153 * mp + 2) \div 5 + d - 1
        doe == yoe * 365 + yoe \div 4 - yoe \div 100 + doy
    IN  era * 146097 + doe - 719468

\* new Date(Date.UTC(y, m - 1, d, H, M, S, ms))
DateUTC(y, m, d, H, M, S, ms) ==
    [day |-> DayFromCivil(y, m, d),
     ms  |-> ((H * 60 + M) * 60 + S) * 1000 + ms]

\* new Date(dt.valueOf() + 1000)
OneSecondLater(dt) ==
    IF dt.ms + 1000 < 86400000 THEN [dt EXCEPT !.ms = dt.ms + 1000]
    ELSE [day |-> dt.day + 1, ms |-> dt.ms + 1000 - 86400000]

\* the calendar date of a day number, as [y, m, d] with m = 1..12
CivilFromDay(day) ==
    LET z   == day + 719468
        era == z \div 146097
        doe == z - era * 146097
        yoe == (doe - doe \div 1460 + doe \div 36524 - doe \div 146096) \div 365
        doy == doe - (365 * yoe + yoe \div 4 - yoe \div 100)
        mp  == (5 * doy + 2) \div 153
        m   == IF mp < 10 THEN mp + 3 ELSE mp - 9
    IN  [y |-> yoe + era * 400 + (IF m <= 2 THEN 1 ELSE 0),
         m |-> m,
         d |-> doy - (153 * mp + 2) \div 5 + 1]

getUTCFullYear(dt) == CivilFromDay(dt.day).y

\* the month, counted from 0
getUTCMonth(dt) == CivilFromDay(dt.day).m - 1

getUTCDate(dt) == CivilFromDay(dt.day).d

getUTCHours(dt) == dt.ms \div 3600000

getUTCMinutes(dt) == (dt.ms \div 60000) % 60

getUTCSeconds(dt) == (dt.ms \div 1000) % 60

getUTCMilliseconds(dt) == dt.ms % 1000

\* solarplanets.getJ0FromDatevec(y, m, d), doubled: the Julian Date of 0h UT
\* of a calendar date, 367 y - INT(7 (y + INT((m + 9) / 12)) / 4)
\* + INT(275 m / 9) + d + 1721013.5
getJ0FromDatevec(y, m, d) ==
    2 * (367 * y - (7 * (y + (m + 9) \div 12)) \div 4 + (275 * m) \div 9 + d)
    + 3442027

\* solarplanets.getUtFromTimevec(H, M, S): the time since 0h UT, in
\* milliseconds (S is given in milliseconds)
getUtFromTimevec(H, M, S) == (H * 60 + M) * 60000 + S

\* half a day in units of 2^-31 day
HalfDay == 1073741824

\* ms / 86400000 day rounded to the nearest multiple of 2^-31 day
\* (86400000 = 2^10 * 84375; the division is staged to stay in range)
DayFraction(ms) ==
    LET q  == ms \div 84375
        r  == ms % 84375
        q1 == (r * 1024) \div 84375
        r1 == (r * 1024) % 84375
    IN  q * 2097152 + q1 * 2048 + (2 * r1 * 2048 + 84375) \div (2 * 84375)

\* solarplanets.getJdFromDateTime(J0, UT): J0 + UT / 24, rounded to a double
getJdFromDateTime(J0, UT) == [J0x2 |-> J0, frac |-> DayFraction(UT)]

\* (variant) the month is passed as getUTCMonth() returns it, counted from 0
getJdFromDatetimeMonthFromZero(dt) ==
    LET y  == getUTCFullYear(dt)
        m  == getUTCMonth(dt)
        d  == getUTCDate(dt)
        H  == getUTCHours(dt)
        M  == getUTCMinutes(dt)
        S  == getUTCSeconds(dt) * 1000 + getUTCMilliseconds(dt)
        J0 == getJ0FromDatevec(y, m, d)
        UT == getUtFromTimevec(H, M, S)
    IN  getJdFromDateTime(J0, UT)

\* getJdFromDatetime(dt): the Julian Date of a Date
getJdFromDatetime(dt) ==
    LET y  == getUTCFullYear(dt)
        m  == getUTCMonth(dt) + 1
        d  == getUTCDate(dt)
        H  == getUTCHours(dt)
        M  == getUTCMinutes(dt)
        S  == getUTCSeconds(dt) * 1000 + getUTCMilliseconds(dt)
        J0 == getJ0FromDatevec(y, m, d)
        UT == getUtFromTimevec(H, M, S)
    IN  getJdFromDateTime(J0, UT)

\* the Date of the instant t of the program's clock: t whole days after
\* 2000-01-01T12:00:00Z
DateAt(t) == [day |-> 10957 + t, ms |-> 43200000]

\* solarplanets.getJulianCenturies: (JD - 2451545.0) / 36525, as a count of
\* whole days (1/36525 century)
getJulianCenturies(JD) == ((JD.J0x2 - 4903090) + JD.frac \div HalfDay) \div 2

\* solarplanets.getCurrentElements: value0 + rate * T
getCurrentElements(v0, dv, T) == v0 + MulDiv(dv, T, 36525)

\* the fields a catalog record must have: semi-major axis (1/100 au) and
\* mean longitude (centi-turns), each with its rate per century, and the
\* inclination (centi-turns)
RequiredFields == {"a_au", "da_au", "L", "dL", "I"}

\* a_au * au2km, with au2km = 1.49597871e8 km and a_au in 1/100 au
au2km(a) == MulDiv(a, 149598, 100)

\* solarplanets.getRvFromElementsDatetime(ce, dt)[0]: arithmetic on a missing
\* field or on an invalid Date yields NaN in every component.  T is the
\* time of dt since J2000.0 in 1/36525 century: the instant dt itself, which
\* is counted in whole days from J2000.0
getRvFromElementsDatetime(ce, dt) ==
    IF ~(RequiredFields \subseteq DOMAIN ce) \/ dt = InvalidDate THEN NaNVec
    ELSE LET T    == dt
             a_km == au2km(getCurrentElements(ce.a_au, ce.da_au, T))
             L    == getCurrentElements(ce.L, ce.dL, T)
             xp   == MulDiv(a_km, cosMilli(L), 1000)
             yp   == MulDiv(a_km, sinMilli(L), 1000)
         IN  Vec(xp, MulDiv(yp, cosMilli(ce.I), 1000),
                     MulDiv(yp, sinMilli(ce.I), 1000))

(***************************************************************************)
(* The catalog file (standish_catalog.json): the input of the loader.      *)
(***************************************************************************)
\* well-formed records, after Standish's table
StandishRecords ==
    << [a_au |-> 39,   da_au |-> 0, L |-> 70, dL |-> 41520, I |-> 2],
       [a_au |-> 72,   da_au |-> 0, L |-> 50, dL |-> 16255, I |-> 1],
       [a_au |-> 100,  da_au |-> 0, L |-> 28, dL |-> 10000, I |-> 0],
       [a_au |-> 152,  da_au |-> 0, L |-> 99, dL |-> 5317,  I |-> 1],
       [a_au |-> 520,  da_au |-> 0, L |-> 10, dL |-> 843,   I |-> 0],
       [a_au |-> 954,  da_au |-> 0, L |-> 14, dL |-> 340,   I |-> 1],
       [a_au |-> 1919, da_au |-> 0, L |-> 87, dL |-> 119,   I |-> 0],
       [a_au |-> 3007, da_au |-> 0, L |-> 85, dL |-> 61,    I |-> 0] >>

\* a record with the given fields left out
Without(rec, fields) == [f \in (DOMAIN rec) \ fields |-> rec[f]]

\* what the file may hold for planet k: nothing, its record, or its record
\* with a required field missing
RecordKinds == {"absent", "good", "noA", "noL"}

RecordOfKind(k, kind) ==
    CASE kind = "good" -> StandishRecords[k]
      [] kind = "noA"  -> Without(StandishRecords[k], {"a_au"})
      [] kind = "noL"  -> Without(StandishRecords[k], {"L"})

\* JSON.parse of the file whose entry for planet k is of kind kinds[k]
ParsedCatalog(kinds) ==
    LET present == { k \in Tracked : kinds[k] # "absent" }
        keys    == { toLowerCase(planets[k].name) : k \in present }
    IN  [ key \in keys |->
            LET k == CHOOSE j \in present : toLowerCase(planets[j].name) = key
            IN  RecordOfKind(k, kinds[k]) ]

\* the files the model loads: the file with no record at all, and the files
\* with a good record for every planet but the first, whose entry is of any
\* kind
CatalogFiles ==
    { ParsedCatalog([k \in Tracked |-> IF k = 1 THEN kind ELSE "good"]) :
        kind \in RecordKinds }
    \cup { ParsedCatalog([k \in Tracked |-> "absent"]) }

\* catalog[key], with a missing key read as undefined
HasEntry(cat, key) == key \in DOMAIN cat

(***************************************************************************)
(* Pure functions of index.mjs.                                            *)
(***************************************************************************)
\* buildPlanet: the mesh (its name and position) placed at
\* spatialScale * initialPosition
buildPlanet(initialPosition, name) ==
    [name |-> name, position |-> Scaled(initialPosition)]

\* T_s = 2 * PI * sqrt(a_km^3 / MU_SUN_KM3PS2), in days for a_km in Mm:
\* one year (365 d) times (a / 1 au)^(3/2), with sqrt(1 au) = 387
OrbitalPeriod(a_km) == MulDiv(MulDiv(a_km, 365, 149598), Isqrt(a_km), 387)

\* (variant) the fallback angle stepped by 1 / (n + 1) of a turn
FallbackPointOpen(radius, i) ==
    LET ang == (100 * i) \div (n + 1)
    IN  Scaled(Vec(MulDiv(radius, cosMilli(ang), 1000),
                   MulDiv(radius, sinMilli(ang), 1000),
                   0))

\* the fallback point i of buildOrbitTrace
FallbackPoint(radius, i) ==
    LET ang == (100 * i) \div n
    IN  Scaled(Vec(MulDiv(radius, cosMilli(ang), 1000),
                   MulDiv(radius, sinMilli(ang), 1000),
                   0))

\* the instant t_dt of sample i of buildOrbitTrace
SampleInstant(ce, now, i) ==
    IF {"a_au", "da_au"} \subseteq DOMAIN ce
    THEN LET T0   == getJulianCenturies(getJdFromDatetime(DateAt(now)))
             a_km == getCurrentElements(au2km(ce.a_au), au2km(ce.da_au), T0)
             T_s  == OrbitalPeriod(a_km)
         IN  now + (T_s * i) \div n
    ELSE InvalidDate

\* the catalog point i of buildOrbitTrace
CatalogPoint(ce, now, i) ==
    Scaled(getRvFromElementsDatetime(ce, SampleInstant(ce, now, i)))

\* (variant) the loops run while i < n: n points
buildOrbitTraceShort(radius, name, cat, now) ==
    LET key == toLowerCase(name)
    IN  IF ~HasEntry(cat, key)
        THEN [ j \in 1..n |-> FallbackPoint(radius, j - 1) ]
        ELSE [ j \in 1..n |-> CatalogPoint(cat[key], now, j - 1) ]

\* (variant) n propagated points, then the first point again
buildOrbitTraceClosed(radius, name, cat, now) ==
    LET key == toLowerCase(name)
    IN  IF ~HasEntry(cat, key)
        THEN [ j \in 1..(n + 1) |-> FallbackPoint(radius, j - 1) ]
        ELSE [ j \in 1..(n + 1) |->
                 CatalogPoint(cat[key], now, IF j = n + 1 THEN 0 ELSE j - 1) ]

\* buildOrbitTrace(radius, name): the points of the line, in order; cat is
\* the catalog and now the value of new Date() when it runs
buildOrbitTrace(radius, name, cat, now) ==
    LET key == toLowerCase(name)
    IN  IF ~HasEntry(cat, key)
        THEN [ j \in 1..(n + 1) |-> FallbackPoint(radius, j - 1) ]
        ELSE [ j \in 1..(n + 1) |-> CatalogPoint(cat[key], now, j - 1) ]

(***************************************************************************)
(* State.                                                                  *)
(***************************************************************************)
VARIABLES
    CATALOG,        \* the imported text of standish_catalog.json
    articles,       \* the class names of the articles of the document
    wall,           \* the time new Date() returns
    loaded,         \* onWindowLoad has run (scene built, loop and listeners set)
    catalog,        \* let catalog
    position,       \* scene: planet name -> mesh position
    orbitTrace,     \* scene: planet name -> points of its orbit line
    clock,          \* window.app.clock
    isPaused,       \* window.app.isPaused
    is_mouse_down,  \* window.app.is_mouse_down
    mouse_pos,      \* window.app.mouse_pos
    dialog,         \* innerHTML of .DialogContent and style.display of
                    \* .DialogBackground
    pausedFrames,   \* history: animate calls since isPaused was last set
    shown,          \* history: << >>, or << t >> when the last animate call
                    \* read the clock value t on entry
    frame,          \* history: the phases of the last animate call, in the
                    \* order they ran
    julian          \* the getJdFromDatetime calls made to try the conversion
                    \* on its own: each Date given with the result

vars == << CATALOG, articles, wall, loaded, catalog, position, orbitTrace,
           clock, isPaused, is_mouse_down, mouse_pos, dialog, pausedFrames,
           shown, frame, julian >>

\* the names of the objects a pick ray can hit: the planets, the Sun, and
\* the unnamed orbit lines and axes helper
SceneNames == PlanetNames \cup {"Sun", ""}

\* at most MaxHits intersections are returned for one ray
MaxHits == 2

\* the documents the model runs in: every tracked planet has an article, or
\* every one but the last
ArticleSets ==
    { { toLowerCase(planets[k].name) : k \in 1..m } : m \in {NumPlanets - 1, NumPlanets} }

\* the positions a pointer event can report, as (x, y) of mouse_pos
PointerPositions == { << 0, 0 >>, << 1, 1 >> }

Init ==
    /\ CATALOG \in CatalogFiles
    /\ articles \in ArticleSets
    /\ wall = 0
    /\ loaded = FALSE
    /\ catalog = << >>
    /\ position = << >>
    /\ orbitTrace = << >>
    /\ clock = wall
    /\ isPaused = FALSE
    /\ is_mouse_down = FALSE
    /\ mouse_pos = << 0, 0 >>
    /\ dialog = [innerHTML |-> "", display |-> ""]
    /\ pausedFrames = 0
    /\ shown = << >>
    /\ frame = << >>
    /\ julian = << >>

(***************************************************************************)
(* Operations.                                                             *)
(***************************************************************************)
\* the wall clock advances
TimePasses ==
    /\ wall < MaxWall
    /\ wall' = wall + 1
    /\ UNCHANGED << CATALOG, articles, loaded, catalog, position, orbitTrace,
                    clock, isPaused, is_mouse_down, mouse_pos, dialog,
                    pausedFrames, shown, frame, julian >>

\* (variant) the orbit lines are sampled from the instant window.app.clock
\* holds
onWindowLoadAtClock ==
    /\ ~loaded
    /\ catalog' = CATALOG
    /\ position' =
         [ name \in PlanetNames |->
             LET p == planets[CHOOSE k \in Tracked : planets[k].name = name]
             IN  buildPlanet(Vec(p.semiMajorAxis_km, 0, 0), p.name).position ]
    /\ orbitTrace' =
         [ name \in PlanetNames |->
             LET p == planets[CHOOSE k \in Tracked : planets[k].name = name]
             IN  buildOrbitTrace(p.semiMajorAxis_km, p.name, catalog', clock) ]
    /\ loaded' = TRUE
    /\ UNCHANGED << CATALOG, articles, wall, clock, isPaused, is_mouse_down,
                    mouse_pos, dialog, pausedFrames, shown, frame, julian >>

\* onWindowLoad: parse the catalog, build the scene, start the frame loop
onWindowLoad ==
    /\ ~loaded
    /\ catalog' = CATALOG
    /\ position' =
         [ name \in PlanetNames |->
             LET p == planets[CHOOSE k \in Tracked : planets[k].name = name]
             IN  buildPlanet(Vec(p.semiMajorAxis_km, 0, 0), p.name).position ]
    /\ orbitTrace' =
         [ name \in PlanetNames |->
             LET p == planets[CHOOSE k \in Tracked : planets[k].name = name]
             IN  buildOrbitTrace(p.semiMajorAxis_km, p.name, catalog', wall) ]
    /\ loaded' = TRUE
    /\ UNCHANGED << CATALOG, articles, wall, clock, isPaused, is_mouse_down,
                    mouse_pos, dialog, pausedFrames, shown, frame, julian >>

\* (variant) a dialog that is already open is left as it is
openDialogUnlessOpen(name, dlg) ==
    IF toLowerCase(name) \notin articles \/ dlg.display = "block" THEN dlg
    ELSE [dlg EXCEPT !.innerHTML = toLowerCase(name), !.display = "block"]

\* openDialog(name), as the dialog it leaves
openDialog(name, dlg) ==
    IF toLowerCase(name) \notin articles THEN dlg
    ELSE [dlg EXCEPT !.innerHTML = toLowerCase(name), !.display = "block"]

\* (variant) the dialog is opened for a planet under the pointer whether or
\* not the button is down
processCollisionHover(name, dlg) ==
    IF name # "" /\ name \in PlanetNames
    THEN openDialog(name, dlg)
    ELSE dlg

\* processCollision(collision), as the dialog it leaves; name is
\* collision.object.name
processCollision(name, dlg) ==
    IF name # "" /\ name \in PlanetNames /\ is_mouse_down
    THEN openDialog(name, dlg)
    ELSE dlg

\* the lists raycaster.intersectObjects may return: at most MaxHits
\* intersections, nearest first, each with the name of the object hit
RECURSIVE ListsOfAtMost(_)
ListsOfAtMost(k) ==
    IF k = 0 THEN { << >> }
    ELSE LET shorter == ListsOfAtMost(k - 1)
         IN  shorter \cup { Append(intersections, name) :
                              intersections \in shorter, name \in SceneNames }

PickLists == ListsOfAtMost(MaxHits)

\* intersections.forEach(processCollision), as the dialog it leaves: one
\* processCollision per intersection, in list order
RECURSIVE forEach(_, _)
forEach(intersections, dlg) ==
    IF intersections = << >> THEN dlg
    ELSE forEach(Tail(intersections), processCollision(Head(intersections), dlg))

\* the dialogs intersections.forEach(processCollision) can leave when it
\* starts from one of dlgs, over all the lists of at most hits intersections
\* at once: { forEach(l, d) : d \in dlgs, l \in PickLists } for hits =
\* MaxHits, built one intersection at a time
RECURSIVE forEachCollision(_, _)
forEachCollision(dlgs, hits) ==
    IF hits = 0 THEN dlgs
    ELSE dlgs \cup forEachCollision(
                     { processCollision(name, d) : name \in SceneNames, d \in dlgs },
                     hits - 1)

\* (variant) propagate at new Date() instead of the clock read on entry
PublishedPositionAtWall(name, now) ==
    LET key == toLowerCase(name)
    IN  IF name \in DOMAIN position /\ HasEntry(catalog, key)
        THEN Scaled(getRvFromElementsDatetime(catalog[key], wall))
        ELSE position[name]

\* (variant) update the clock first, then propagate at the updated clock
PublishedPositionAfterTick(name, now) ==
    LET key == toLowerCase(name)
    IN  IF name \in DOMAIN position /\ HasEntry(catalog, key)
        THEN Scaled(getRvFromElementsDatetime(
                 catalog[key], IF ~isPaused THEN wall ELSE now))
        ELSE position[name]

\* (variant) a planet without a catalog entry is moved along its fallback
\* circle
PublishedPositionOrbiting(name, now) ==
    LET key == toLowerCase(name)
        p   == planets[CHOOSE k \in Tracked : planets[k].name = name]
    IN  IF name \in DOMAIN position /\ HasEntry(catalog, key)
        THEN Scaled(getRvFromElementsDatetime(catalog[key], now))
        ELSE FallbackPoint(p.semiMajorAxis_km, now)

\* (variant) position.add in place of position.set
PublishedPositionAdded(name, now) ==
    LET key == toLowerCase(name)
        r   == Scaled(getRvFromElementsDatetime(catalog[key], now))
        old == position[name]
    IN  IF name \in DOMAIN position /\ HasEntry(catalog, key)
        THEN (IF IsFinite(r) /\ IsFinite(old)
              THEN Vec(old.x + r.x, old.y + r.y, old.z + r.z)
              ELSE NaNVec)
        ELSE position[name]

\* the position animate publishes for one planet at the instant now
PublishedPosition(name, now) ==
    LET key == toLowerCase(name)
    IN  IF name \in DOMAIN position /\ HasEntry(catalog, key)
        THEN Scaled(getRvFromElementsDatetime(catalog[key], now))
        ELSE position[name]

\* (variant) the clock update without the isPaused test
TickedClockUnguarded == wall

\* the clock update at the end of animate
TickedClock == IF ~isPaused THEN wall ELSE clock

\* (variant) the pick is sampled first, on the scene as the last frame left
\* it, then the positions are updated, then the scene is drawn
FramePhasesPickFirst(before, after, now, ticked) ==
    << [phase |-> "pick",   scene |-> before, clock |-> now],
       [phase |-> "update", scene |-> after,  clock |-> now],
       [phase |-> "draw",   scene |-> after,  clock |-> now],
       [phase |-> "tick",   scene |-> after,  clock |-> ticked] >>

\* the phases of one animate call in the order its statements run them, each
\* with the planet positions and the clock it works on (the update and the
\* tick: as they leave them): the position update, renderer.render, the
\* raycaster pick with its processCollision calls, the clock update
FramePhases(before, after, now, ticked) ==
    << [phase |-> "update", scene |-> after, clock |-> now],
       [phase |-> "draw",   scene |-> after, clock |-> now],
       [phase |-> "pick",   scene |-> after, clock |-> now],
       [phase |-> "tick",   scene |-> after, clock |-> ticked] >>

\* (variant) animate stores the elements advanced to the clock back into the
\* catalog records it propagates
animateCachingElements ==
    /\ loaded
    /\ position' = [ name \in PlanetNames |-> PublishedPosition(name, clock) ]
    /\ catalog' =
         [ key \in DOMAIN catalog |->
             IF RequiredFields \subseteq DOMAIN catalog[key]
             THEN [catalog[key] EXCEPT
                     !.L = getCurrentElements(catalog[key].L, catalog[key].dL,
                             getJulianCenturies(getJdFromDatetime(DateAt(clock))))]
             ELSE catalog[key] ]
    /\ dialog' \in forEachCollision({dialog}, MaxHits)
    /\ clock' = TickedClock
    /\ pausedFrames' =
         IF isPaused
         THEN (IF pausedFrames < MaxPausedFrames THEN pausedFrames + 1
               ELSE pausedFrames)
         ELSE 0
    /\ shown' = << clock >>
    /\ frame' = FramePhases(position, position', clock, clock')
    /\ UNCHANGED << CATALOG, articles, wall, loaded, orbitTrace,
                    isPaused, is_mouse_down, mouse_pos, julian >>

\* animate(time): republish the catalogued planets at the clock read on
\* entry, render, pick, then update the clock if not paused
animate ==
    /\ loaded
    /\ position' = [ name \in PlanetNames |-> PublishedPosition(name, clock) ]
    /\ dialog' \in forEachCollision({dialog}, MaxHits)
    /\ clock' = TickedClock
    /\ pausedFrames' =
         IF isPaused
         THEN (IF pausedFrames < MaxPausedFrames THEN pausedFrames + 1
               ELSE pausedFrames)
         ELSE 0
    /\ shown' = << clock >>
    /\ frame' = FramePhases(position, position', clock, clock')
    /\ UNCHANGED << CATALOG, articles, wall, loaded, catalog, orbitTrace,
                    isPaused, is_mouse_down, mouse_pos, julian >>

onPointerMove ==
    /\ loaded
    /\ \E p \in PointerPositions : mouse_pos' = p
    /\ UNCHANGED << CATALOG, articles, wall, loaded, catalog, position,
                    orbitTrace, clock, isPaused, is_mouse_down, dialog,
                    pausedFrames, shown, frame, julian >>

\* (variant) pressing the button also pauses the clock
onMouseDownPausing ==
    /\ loaded
    /\ is_mouse_down' = TRUE
    /\ isPaused' = TRUE
    /\ UNCHANGED << CATALOG, articles, wall, loaded, catalog, position,
                    orbitTrace, clock, mouse_pos, dialog,
                    pausedFrames, shown, frame, julian >>

onMouseDown ==
    /\ loaded
    /\ is_mouse_down' = TRUE
    /\ UNCHANGED << CATALOG, articles, wall, loaded, catalog, position,
                    orbitTrace, clock, isPaused, mouse_pos, dialog,
                    pausedFrames, shown, frame, julian >>

onMouseUp ==
    /\ loaded
    /\ is_mouse_down' = FALSE
    /\ UNCHANGED << CATALOG, articles, wall, loaded, catalog, position,
                    orbitTrace, clock, isPaused, mouse_pos, dialog,
                    pausedFrames, shown, frame, julian >>

\* onDialogClicked(event): event.target.style.display = "none".  The listener
\* is on .DialogBackground; a click on an element inside it changes that
\* element's own style, which no operation reads and the model does not hold
onDialogClicked ==
    /\ loaded
    /\ dialog.display = "block"
    /\ \E target \in {"DialogBackground", "DialogContent"} :
         dialog' = IF target = "DialogBackground"
                   THEN [dialog EXCEPT !.display = "none"]
                   ELSE dialog
    /\ UNCHANGED << CATALOG, articles, wall, loaded, catalog, position,
                    orbitTrace, clock, isPaused, is_mouse_down, mouse_pos,
                    pausedFrames, shown, frame, julian >>

\* the clock control surface: pause() and resume() write the flag
pause ==
    /\ ~isPaused
    /\ isPaused' = TRUE
    /\ pausedFrames' = 0
    /\ UNCHANGED << CATALOG, articles, wall, loaded, catalog, position,
                    orbitTrace, clock, is_mouse_down, mouse_pos, dialog, shown, frame, julian >>

resume ==
    /\ isPaused
    /\ isPaused' = FALSE
    /\ pausedFrames' = 0
    /\ UNCHANGED << CATALOG, articles, wall, loaded, catalog, position,
                    orbitTrace, clock, is_mouse_down, mouse_pos, dialog, shown, frame, julian >>

Next ==
    \/ TimePasses
    \/ onWindowLoad
    \/ animate
    \/ onPointerMove
    \/ onMouseDown
    \/ onMouseUp
    \/ onDialogClicked
    \/ pause
    \/ resume

Spec == Init /\ [][Next]_vars

\* start-up alone: time passes and the page loads, which builds the scene
\* (the planets and, with buildOrbitTrace, their orbit lines)
NextLoad ==
    \/ TimePasses
    \/ onWindowLoad

SpecLoad == Init /\ [][NextLoad]_vars

(***************************************************************************)
(* The calendar conversion on its own: getJdFromDatetime is applied to the *)
(* last second of a month, and then to the Date one second later.          *)
(***************************************************************************)
\* the years tried reach YearSpan years either side of 2000
YearSpan == 1

\* 23:59:59 UTC on the last day of every month of the years tried, and the
\* epoch J2000.0
JulianDates ==
    { [day |-> DayFromCivil(IF m = 12 THEN y + 1 ELSE y,
                            IF m = 12 THEN 1 ELSE m + 1, 1) - 1,
       ms  |-> 86399000] :
        y \in (2000 - YearSpan)..(2000 + YearSpan), m \in 1..12 }
    \cup { DateUTC(2000, 1, 1, 12, 0, 0, 0) }

getJdAtDate ==
    /\ julian = << >>
    /\ \E dt \in JulianDates :
         julian' = << [dt |-> dt, JD |-> getJdFromDatetime(dt)] >>
    /\ UNCHANGED << CATALOG, articles, wall, loaded, catalog, position,
                    orbitTrace, clock, isPaused, is_mouse_down, mouse_pos,
                    dialog, pausedFrames, shown, frame >>

getJdOneSecondLater ==
    /\ Len(julian) = 1
    /\ LET dt == OneSecondLater(julian[1].dt)
       IN  julian' = Append(julian, [dt |-> dt, JD |-> getJdFromDatetime(dt)])
    /\ UNCHANGED << CATALOG, articles, wall, loaded, catalog, position,
                    orbitTrace, clock, isPaused, is_mouse_down, mouse_pos,
                    dialog, pausedFrames, shown, frame >>

NextJd ==
    \/ getJdAtDate
    \/ getJdOneSecondLater

SpecJd == Init /\ [][NextJd]_vars

(***************************************************************************)
(* Helpers of the properties.                                              *)
(***************************************************************************)
\* the entry of the planets list with the given name
PlanetNamed(name) == planets[CHOOSE k \in Tracked : planets[k].name = name]

\* the position buildPlanet gives a planet at initialization
StaticPosition(name) ==
    [x |-> DivT(PlanetNamed(name).semiMajorAxis_km, spatialScaleInv),
     y |-> 0, z |-> 0]

\* the planet has a catalog entry under its lower-cased name
Catalogued(name) == toLowerCase(name) \in DOMAIN catalog

\* the scene position of the planet's elements propagated at instant t
PropagatedAt(name, t) ==
    Scaled(getRvFromElementsDatetime(catalog[toLowerCase(name)], t))

\* the planet's catalog record lacks a required field
Malformed(name) ==
    /\ Catalogued(name)
    /\ ~(RequiredFields \subseteq DOMAIN catalog[toLowerCase(name)])

\* p lies on the circle of radius r about the origin in the plane z = 0,
\* within the 1% the fixed-point sines and cosines allow (in units of 100 Mm,
\* which keeps the squares in range)
OnCircle(p, r) ==
    /\ IsFinite(p)
    /\ p.z = 0
    /\ LET d2 == (p.x \div 100) * (p.x \div 100) + (p.y \div 100) * (p.y \div 100)
           r2 == (r \div 100) * (r \div 100)
       IN  Abs(d2 - r2) * 100 <= 2 * r2

\* a step that changes what no animate call changes, or leaves the history
\* of the last frame other than an animate call leaves it, is no animate
\* call
NoFrame ==
    \/ shown' # << clock >>
    \/ wall' # wall
    \/ isPaused' # isPaused
    \/ is_mouse_down' # is_mouse_down
    \/ mouse_pos' # mouse_pos

\* the pick of the frame can have returned the given intersections: the
\* frame leaves the dialog their forEach leaves
Picked(intersections) == dialog' = forEach(intersections, dialog)

\* the lists of several intersections, each with a tracked planet
SeveralPlanetsPicked ==
    { intersections \in PickLists :
        /\ Len(intersections) >= 2
        /\ \A i \in DOMAIN intersections : intersections[i] \in PlanetNames }

\* the dialogs a frame can leave are those of the lists the pick can return
PickOutcomesAreThoseOfTheLists ==
    forEachCollision({dialog}, MaxHits)
      = { forEach(intersections, dialog) : intersections \in PickLists }

(***************************************************************************)
(* C1.  Stated by the claim: once the pause flag is set between frames, no *)
(* animate call made while paused changes any body position.               *)
(***************************************************************************)
C1_NoPausedFrameMovesABody ==
    [][ position' = position \/ ~(isPaused /\ shown # << >> /\ animate) ]_vars

\* C1, as the code has it: the first animate call made while paused may
\* still move the catalogued bodies (it publishes them at the frozen clock
\* value); every later animate call made while paused, the 2nd to the 10th
\* and beyond, leaves every body position unchanged.
C1_PausedFramesAfterTheFirstKeepPositions ==
    [][ position' = position \/ ~(isPaused /\ pausedFrames >= 1 /\ animate) ]_vars

\* ten successive paused frames have run on a scene with a propagated body
C1_Witness ==
    /\ isPaused
    /\ pausedFrames >= 10
    /\ \E name \in PlanetNames :
         /\ Catalogued(name)
         /\ IsFinite(position[name])
         /\ position[name] # StaticPosition(name)

(***************************************************************************)
(* C2.  An animate call made while isPaused is true leaves the clock as it *)
(* was, and the clock changes only in an animate call that sees isPaused   *)
(* false.                                                                  *)
(***************************************************************************)
C2_ClockFrozenWhilePaused ==
    [][ /\ clock' = clock \/ ~(isPaused /\ animate)
        /\ clock' # clock => (~isPaused /\ animate) ]_vars

\* a paused frame has run while new Date() had moved on, and the clock kept
\* its value
C2_Witness ==
    /\ isPaused
    /\ pausedFrames >= 1
    /\ clock < wall

(***************************************************************************)
(* C3.  Stated by the claim: the clock is ticked first, so that when an    *)
(* animate call has finished every catalogued body's published position   *)
(* is the propagation at the clock value the clock then reports.           *)
(***************************************************************************)
C3_PositionMatchesClockAfterTick ==
    shown # << >> =>
      \A name \in PlanetNames :
        Catalogued(name) => position[name] = PropagatedAt(name, clock)

\* C3, as the code has it: every catalogued body's published position is the
\* propagation at the clock value the animate call read on entry; the clock
\* is updated last, so after an unpaused call the position corresponds to
\* the clock value before the update, which the clock has left behind
\* whenever new Date() has moved on.
C3_PositionMatchesClockOnEntry ==
    \A t \in 0..MaxWall :
      shown = << t >> =>
        /\ t <= clock
        /\ \A name \in PlanetNames :
             Catalogued(name) => position[name] = PropagatedAt(name, t)

\* after a frame, a body is shown where it was at an instant before the one
\* the clock reports
C3_Witness ==
    /\ loaded
    /\ \E name \in PlanetNames, t \in 0..MaxWall :
         /\ Catalogued(name)
         /\ shown = << t >>
         /\ t < clock
         /\ position[name] = PropagatedAt(name, t)
         /\ position[name] # PropagatedAt(name, clock)

(***************************************************************************)
(* C4.  A tracked body without a catalog entry keeps the static position   *)
(* buildPlanet gave it (the scaled reference distance on the x axis,       *)
(* y = z = 0) through every animate call.                                  *)
(***************************************************************************)
C4_UncataloguedBodyStaysStatic ==
    loaded =>
      \A name \in PlanetNames :
        ~Catalogued(name) => position[name] = StaticPosition(name)

\* frames have run at a late clock value, moving a catalogued body, with an
\* uncatalogued body beside it
C4_Witness ==
    /\ loaded
    /\ shown = << MaxWall >>
    /\ \E a, b \in PlanetNames :
         /\ ~Catalogued(a)
         /\ Catalogued(b)
         /\ IsFinite(position[b])
         /\ position[b] # StaticPosition(b)

(***************************************************************************)
(* C5.  The position update is idempotent in the epoch: an animate call    *)
(* that starts with the clock value the previous call started with         *)
(* publishes the positions that call published, whatever happened between  *)
(* the two (the clock never runs backward, so two calls with one clock     *)
(* value have only calls with that value between them).                    *)
(***************************************************************************)
C5_SameEpochSamePositions ==
    [][ position' = position \/ ~(shown = << clock >> /\ animate) ]_vars

\* two frames in a row have read one clock value (the clock was frozen),
\* with the mouse pressed and the dialog opened, on a propagated body
C5_Witness ==
    /\ isPaused
    /\ pausedFrames >= 2
    /\ shown = << clock >>
    /\ clock > 0
    /\ is_mouse_down
    /\ dialog.display = "block"
    /\ \E name \in PlanetNames :
         /\ Catalogued(name)
         /\ position[name] = PropagatedAt(name, clock)
         /\ position[name] # PropagatedAt(name, 0)

(***************************************************************************)
(* C6.  For every body, catalogued or not, the orbit line has n + 1 = 101  *)
(* points, the point at index j being sample i = j - 1.                    *)
(***************************************************************************)
C6_TraceHasPointCountPlusOnePoints ==
    loaded =>
      \A name \in PlanetNames :
        /\ DOMAIN orbitTrace[name] = 1..101
        /\ Len(orbitTrace[name]) = n + 1
        /\ \E now \in 0..MaxWall :
             \A i \in 0..n :
               orbitTrace[name][i + 1] =
                 IF Catalogued(name)
                 THEN PropagatedAt(name, SampleInstant(catalog[toLowerCase(name)], now, i))
                 ELSE FallbackPoint(PlanetNamed(name).semiMajorAxis_km, i)

\* a scene holding the line of a catalogued body and of an uncatalogued one
C6_Witness ==
    /\ loaded
    /\ \E a, b \in PlanetNames :
         /\ ~Catalogued(a) /\ Len(orbitTrace[a]) = 101
         /\ Catalogued(b) /\ Len(orbitTrace[b]) = 101
         /\ IsFinite(orbitTrace[b][101])

(***************************************************************************)
(* C7.  Stated by the claim: for a catalogued body the last point of the   *)
(* line is the first point itself.                                         *)
(***************************************************************************)
C7_LastPointIsTheFirst ==
    loaded =>
      \A name \in PlanetNames :
        Catalogued(name) => orbitTrace[name][n + 1] = orbitTrace[name][1]

\* C7, as the code has it: the propagator is called at the n + 1 instants
\* now + i * P / n, i = 0..n; the last point is the propagation one period
\* P after the first instant, a further propagation and not a copy of the
\* first point.
C7_LastPointIsPropagatedOnePeriodOn ==
    loaded =>
      \A name \in PlanetNames :
        Catalogued(name) /\ ~Malformed(name) =>
          \E now \in 0..MaxWall :
            LET ce == catalog[toLowerCase(name)]
                P  == OrbitalPeriod(au2km(ce.a_au)
                                    + MulDiv(au2km(ce.da_au), now, 36525))
            IN  /\ orbitTrace[name][1] = PropagatedAt(name, now)
                /\ orbitTrace[name][n + 1] = PropagatedAt(name, now + P)
                /\ \A i \in 0..n :
                     orbitTrace[name][i + 1] =
                       PropagatedAt(name, now + (P * i) \div n)

\* the line of a catalogued body whose last point is not its first
C7_Witness ==
    /\ loaded
    /\ \E name \in PlanetNames :
         /\ Catalogued(name)
         /\ IsFinite(orbitTrace[name][1])
         /\ IsFinite(orbitTrace[name][n + 1])
         /\ orbitTrace[name][n + 1] # orbitTrace[name][1]

(***************************************************************************)
(* C8.  Stated by the claim: for a body absent from the catalog the line   *)
(* is the n + 1 points (r cos th_i, r sin th_i, 0), th_i = 2 PI i / n, on  *)
(* the circle of radius r, the reference radius given to the sampler.      *)
(***************************************************************************)
C8_FallbackOnCircleOfReferenceRadius ==
    loaded =>
      \A name \in PlanetNames :
        ~Catalogued(name) =>
          LET r == PlanetNamed(name).semiMajorAxis_km
          IN  \A i \in 0..n :
                /\ orbitTrace[name][i + 1] =
                     Vec(MulDiv(r, cosMilli(i), 1000), MulDiv(r, sinMilli(i), 1000), 0)
                /\ OnCircle(orbitTrace[name][i + 1], r)

\* C8, as the code has it: the n + 1 points are
\* spatialScale * (r cos th_i, r sin th_i, 0), th_i = 2 PI i / n: each has
\* z = 0 and lies on the circle of radius spatialScale * r about the origin;
\* the points depend neither on the clock nor on a propagator call.
C8_FallbackOnCircleOfScaledRadius ==
    loaded =>
      \A name \in PlanetNames :
        ~Catalogued(name) =>
          LET r == PlanetNamed(name).semiMajorAxis_km
          IN  /\ Len(orbitTrace[name]) = n + 1
              /\ \A i \in 0..n :
                   /\ orbitTrace[name][i + 1] =
                        Vec(DivT(MulDiv(r, cosMilli(i), 1000), spatialScaleInv),
                            DivT(MulDiv(r, sinMilli(i), 1000), spatialScaleInv),
                            0)
                   /\ OnCircle(orbitTrace[name][i + 1], DivT(r, spatialScaleInv))

\* the fallback line of an uncatalogued planet: it starts on the x axis at
\* the scaled radius and a quarter of the way round it is on the y axis
C8_Witness ==
    /\ loaded
    /\ wall > 0
    /\ \E name \in PlanetNames :
         /\ ~Catalogued(name)
         /\ orbitTrace[name][26] = Vec(0, StaticPosition(name).x, 0)
         /\ orbitTrace[name][1] = StaticPosition(name)

(***************************************************************************)
(* C9.  The catalog is written once, by onWindowLoad, before the frame     *)
(* loop runs; no later step (animate, a handler) changes it or any element *)
(* or rate in it.                                                          *)
(***************************************************************************)
C9_CatalogWrittenOnceAtLoad ==
    [][ /\ catalog' # catalog => (~loaded /\ onWindowLoad)
        /\ loaded => catalog' = catalog
        /\ loaded' => catalog' = CATALOG ]_vars

\* frames and handlers have run on a loaded, non-empty catalog
C9_Witness ==
    /\ loaded
    /\ catalog # << >>
    /\ catalog = CATALOG
    /\ shown = << MaxWall >>
    /\ dialog.display = "none"
    /\ mouse_pos # << 0, 0 >>

(***************************************************************************)
(* C10.  Stated by the claim: a body whose catalog record lacks a required *)
(* field is treated as absent from the catalog: it keeps its static        *)
(* position and gets the circular fallback line.                           *)
(***************************************************************************)
C10_MalformedRecordTreatedAsAbsent ==
    loaded =>
      \A name \in PlanetNames :
        Malformed(name) =>
          /\ position[name] = StaticPosition(name)
          /\ \A i \in 0..n :
               orbitTrace[name][i + 1] =
                 FallbackPoint(PlanetNamed(name).semiMajorAxis_km, i)

(***************************************************************************)
(* C11.  Stated by the claim: within a frame the phases run one at a time  *)
(* in the order input (pick) sampling, simulation update, draw: the        *)
(* position update comes after the frame's pick sampling and before its    *)
(* render call.                                                            *)
(***************************************************************************)
C11_PickThenUpdateThenDraw ==
    frame # << >> =>
      \E i, j, k \in DOMAIN frame :
        /\ i < j /\ j < k
        /\ frame[i].phase = "pick"
        /\ frame[j].phase = "update"
        /\ frame[k].phase = "draw"

\* C11, as the code has it: the phases of a frame run one at a time in the
\* order simulation update, draw, pick sampling (and then the clock update):
\* the position update comes before the frame's render call, and the pick is
\* sampled after both, so the scene is drawn and picked with the positions
\* the update of that frame published.
C11_UpdateThenDrawThenPick ==
    frame # << >> =>
      /\ \A ph \in {"update", "draw", "pick"} :
           Cardinality({ i \in DOMAIN frame : frame[i].phase = ph }) = 1
      /\ \E i, j, k \in DOMAIN frame :
           /\ i < j /\ j < k
           /\ frame[i].phase = "update"
           /\ frame[j].phase = "draw"
           /\ frame[k].phase = "pick"
           /\ frame[i].scene = position
           /\ frame[j].scene = position
           /\ frame[k].scene = position

\* a frame has run whose update moved a catalogued body
C11_Witness ==
    /\ frame # << >>
    /\ \E t \in 1..MaxWall : shown = << t >>
    /\ \E name \in PlanetNames :
         /\ Catalogued(name)
         /\ IsFinite(position[name])
         /\ position[name] # StaticPosition(name)
         /\ position[name] # PropagatedAt(name, 0)

(***************************************************************************)
(* C12.  A frame changes the dialog only by openDialog on a pointer-down   *)
(* pick of a tracked planet: if an animate call changes the dialog, then   *)
(* is_mouse_down is true and, whatever list of intersections the pick      *)
(* returned, one of them has the non-empty name of a tracked planet and    *)
(* the dialog is open on the content found under that name in lower case.  *)
(* With the button up, or with only the Sun, orbit lines or the axes       *)
(* helper under the ray, the frame leaves the dialog as it was.            *)
(***************************************************************************)
C12_DialogOpenedOnlyOnPointerDownPick ==
    [][ \/ dialog' = dialog
        \/ NoFrame
        \/ ~animate
        \/ /\ is_mouse_down
           /\ \A intersections \in PickLists :
                \/ \E i \in DOMAIN intersections :
                     /\ intersections[i] # ""
                     /\ intersections[i] \in PlanetNames
                     /\ toLowerCase(intersections[i]) \in articles
                     /\ dialog' = [innerHTML |-> toLowerCase(intersections[i]),
                                   display   |-> "block"]
                \/ ~Picked(intersections) ]_vars

\* the button is down and a frame has opened the dialog on a planet's article
C12_Witness ==
    /\ is_mouse_down
    /\ frame # << >>
    /\ dialog.display = "block"
    /\ dialog.innerHTML \in articles

(***************************************************************************)
(* C16.  When, in a frame with the mouse button down, the pick returns     *)
(* several intersections, each with a tracked planet that has an article,  *)
(* processCollision is applied to each in list order and the dialog is     *)
(* left open on the content of the last intersection of the list (the      *)
(* farthest along the ray), not on that of the first (the nearest).        *)
(***************************************************************************)
C16_LastIntersectionWins ==
    [][ \/ ~is_mouse_down
        \/ NoFrame
        \/ ~animate
        \/ \A intersections \in SeveralPlanetsPicked :
             ( /\ \A i \in DOMAIN intersections :
                    toLowerCase(intersections[i]) \in articles
               /\ Picked(intersections) )
             => dialog' = [innerHTML |->
                             toLowerCase(intersections[Len(intersections)]),
                           display |-> "block"] ]_vars

\* the button is down and a frame has left the dialog open on the article of
\* a planet other than the first, in a document with an article for each of
\* several planets
C16_Witness ==
    /\ is_mouse_down
    /\ frame # << >>
    /\ Cardinality(articles) >= 2
    /\ dialog.display = "block"
    /\ dialog.innerHTML \in articles \ {toLowerCase(planets[1].name)}

(***************************************************************************)
(* C15.  The clock and the paused flag are written only by the clock       *)
(* update of animate and by pause / resume: a step that changes the clock  *)
(* is an animate call, a step that changes isPaused is pause or resume,    *)
(* the handlers and onWindowLoad (with buildOrbitTrace) leave both, and    *)
(* inside animate the position update, the draw and the pick (with         *)
(* processCollision and openDialog) work on the clock value read on entry. *)
(***************************************************************************)
C15_ClockWrittenOnlyByTickAndPauseControl ==
    [][ /\ clock' = clock \/ animate
        /\ isPaused' = isPaused \/ pause \/ resume
        /\ UNCHANGED << clock, isPaused >>
             \/ ~(onPointerMove \/ onMouseDown \/ onMouseUp \/ onDialogClicked
                  \/ onWindowLoad)
        /\ frame' = frame
             \/ \A i \in DOMAIN frame' :
                  frame'[i].clock =
                    IF frame'[i].phase = "tick" THEN clock' ELSE clock ]_vars

\* the handlers have run around a frame that updated the clock, and the
\* clock has since been paused
C15_Witness ==
    /\ loaded
    /\ isPaused
    /\ clock > 0
    /\ frame # << >>
    /\ is_mouse_down
    /\ mouse_pos # << 0, 0 >>
    /\ dialog.display = "none"

(***************************************************************************)
(* C13.  Stated by the claim: for a catalogued body the sampler starts     *)
(* from the instant window.app.clock holds: sample i is the propagation at *)
(* clock + i * P / n, and the first point is the body's position at the    *)
(* clock's current time.                                                   *)
(***************************************************************************)
C13_TraceAnchoredAtTheClock ==
    [][ onWindowLoad =>
          \A name \in PlanetNames :
            LET key == toLowerCase(name)
            IN  (HasEntry(CATALOG, key) /\ RequiredFields \subseteq DOMAIN CATALOG[key])
                => \A i \in 0..n :
                     orbitTrace'[name][i + 1] =
                       Scaled(getRvFromElementsDatetime(
                                CATALOG[key], SampleInstant(CATALOG[key], clock, i)))
      ]_vars

\* C13, as the code has it: the sampler does not read window.app.clock; it
\* takes its own new Date() when it runs (at window load) and sample i is
\* the propagation at that instant + i * P / n, P being the orbital period
\* computed for that instant; the first point is the body's position at the
\* time the line was built.
C13_TraceAnchoredAtNewDate ==
    [][ onWindowLoad =>
          \A name \in PlanetNames :
            LET key == toLowerCase(name)
            IN  (HasEntry(CATALOG, key) /\ RequiredFields \subseteq DOMAIN CATALOG[key])
                => /\ orbitTrace'[name][1] =
                        Scaled(getRvFromElementsDatetime(CATALOG[key], wall))
                   /\ \A i \in 0..n :
                        orbitTrace'[name][i + 1] =
                          Scaled(getRvFromElementsDatetime(
                                   CATALOG[key], SampleInstant(CATALOG[key], wall, i)))
      ]_vars

\* the page was loaded after new Date() had moved on from the clock value:
\* the line of a catalogued body starts where the body was at load time,
\* not where it is at the clock value
C13_Witness ==
    /\ loaded
    /\ \E name \in PlanetNames, t \in 1..MaxWall :
         /\ Catalogued(name)
         /\ t <= wall
         /\ clock < t
         /\ IsFinite(orbitTrace[name][1])
         /\ orbitTrace[name][1] = PropagatedAt(name, t)
         /\ orbitTrace[name][1] # PropagatedAt(name, clock)

\* JD2 - JD1 in units of 2^-31 day, for Julian Dates of one day or of
\* consecutive days (-1 otherwise)
JdDifference(JD2, JD1) ==
    IF JD2.J0x2 = JD1.J0x2 THEN JD2.frac - JD1.frac
    ELSE IF JD2.J0x2 = JD1.J0x2 + 2
         THEN (2147483647 - JD1.frac) + 1 + JD2.frac
         ELSE -1

(***************************************************************************)
(* C14.  Stated by the claim: getJdFromDatetime returns exactly 2451545.0  *)
(* for 2000-01-01T12:00:00 UTC, and the instant one second after 23:59:59  *)
(* UTC on the last day of a month or year has a Julian Date exactly        *)
(* 1/86400 day greater (1/86400 day = 2^24 / 675 units of 2^-31 day).      *)
(***************************************************************************)
C14_OneSecondIsExactly86400thOfADay ==
    /\ \A k \in DOMAIN julian :
         julian[k].dt = DateUTC(2000, 1, 1, 12, 0, 0, 0)
           => julian[k].JD = [J0x2 |-> 4903089, frac |-> HalfDay]
    /\ Len(julian) = 2 =>
         675 * JdDifference(julian[2].JD, julian[1].JD) = 16777216

\* C14, as the code has it: getJdFromDatetime returns exactly 2451545.0 for
\* 2000-01-01T12:00:00 UTC; across a month or year boundary the day part of
\* the result moves on to 0h UT of the next calendar day, and the result one
\* second after 23:59:59 UTC is greater by 1/86400 day to within the spacing
\* of doubles at that magnitude (2^-31 day, about 40 microseconds): the
\* difference of two doubles there is a multiple of 2^-31 day, which
\* 1/86400 day is not.
C14_OneSecondIs86400thOfADayRounded ==
    /\ \A k \in DOMAIN julian :
         julian[k].dt = DateUTC(2000, 1, 1, 12, 0, 0, 0)
           => julian[k].JD = [J0x2 |-> 4903089, frac |-> HalfDay]
    /\ Len(julian) = 2 =>
         LET d == JdDifference(julian[2].JD, julian[1].JD)
         IN  /\ 675 * d > 16777216 - 675
             /\ 675 * d < 16777216 + 675
             /\ julian[1].dt.ms = 86399000 =>
                  /\ julian[2].JD.J0x2 = julian[1].JD.J0x2 + 2
                  /\ julian[2].JD.frac = 0

\* the conversion has been applied to the last second of a year and to the
\* first of the next
C14_Witness ==
    /\ Len(julian) = 2
    /\ getUTCMonth(julian[1].dt) = 11
    /\ getUTCDate(julian[1].dt) = 31
    /\ getUTCFullYear(julian[2].dt) = getUTCFullYear(julian[1].dt) + 1
    /\ getUTCMonth(julian[2].dt) = 0
    /\ getUTCDate(julian[2].dt) = 1
    /\ julian[2].dt.ms = 0

====
